---- MODULE Spec2Model ----
(***************************************************************************)
(* A model of packages/broker/src/broker.ts: the lock handle               *)
(* (BrokerLock / BrokerLockItem) over a lock adapter, and the queue        *)
(* channel's consume wrapper (BrokerQueueChannel / BrokerQueueMessage)     *)
(* over a queue adapter, and the bus and queue channels' calls into their  *)
(* adapters.  Every async method is split where the code awaits: the       *)
(* synchronous part up to the adapter call is one step, and                *)
(* the continuation after the await is a step again, taken with the        *)
(* outcome the adapter settles the promise with.  An invoked Release is    *)
(* settled by the adapter in a step of its own, before release() resumes.  *)
(***************************************************************************)
EXTENDS Integers, Sequences, FiniteSets

VARIABLES
    items,      \* lock handles: slot -> BrokerLockItem (or no handle yet)
    calls,      \* the method calls made on the handles, in order of their start
    holder,     \* the adapter: lock id -> the Release that holds it, 0 when free
    toks,       \* the Release closures the adapter handed out
    reg,        \* the queue adapter's consume registration
    msgs,       \* the queue messages the adapter created for delivery
    chan        \* the bus and queue channels' calls, and the adapters that deliver by name

vars == <<items, calls, holder, toks, reg, msgs, chan>>

lockVars == <<items, calls, holder, toks>>

queueVars == <<reg, msgs>>

(***************************************************************************)
(* Bounds of the model.                                                    *)
(***************************************************************************)
\* calls made on the lock handles when calls may overlap
MaxCalls == 3

\* calls made on the lock handles when each handle is used sequentially
MaxSeqCalls == 4

\* adapter calls made while handles are still being constructed
MaxItemCalls == 2

\* calls in all on the handles where isReserved() is among them
MaxReservedCalls == 3

\* calls in all on the bus and queue channels
MaxChannelCalls == 3

\* messages the queue adapter delivers
MaxMsgs == 2

\* the largest maxParallel a caller of consume() gives
MaxParallel == 2

(***************************************************************************)
(* Values.                                                                 *)
(***************************************************************************)
\* `releaser?: Release`: the field when it holds nothing.
undefined == 0

Slots == {"h1", "h2"}

LockIds == {"a", "b"}

AdapterErrors == {"E1"}

BrokerLockError == "BrokerLockError"

ParseError == "ParseError"

\* Option values as the caller writes them: a number, a duration string, or undefined.
Num(n) == [k |-> "num", n |-> n, s |-> ""]

Str(s) == [k |-> "str", n |-> 0, s |-> s]

Undef == [k |-> "undef", n |-> 0, s |-> ""]

Failed(e) == [k |-> "error", n |-> 0, s |-> e]

\* options.<key>: a key the object does not have reads as undefined.
Get(o, key) == IF key \in DOMAIN o THEN o[key] ELSE Undef

(***************************************************************************)
(* parseTime (./utils.js): numbers pass through, a duration string is      *)
(* parsed to milliseconds, an unparseable string fails, undefined stays    *)
(* undefined.  The grammar is given by its value on the strings used here. *)
(***************************************************************************)
DurationStrings == {"2 minutes", "8s", "0s"}

Milliseconds(s) ==
    CASE s = "2 minutes" -> 120000
      [] s = "8s" -> 8000
      [] s = "0s" -> 0

parseTime(value) ==
    CASE value.k = "undef" -> Undef
      [] value.k = "num" -> value
      [] value.k = "str" ->
            IF value.s \in DurationStrings THEN Num(Milliseconds(value.s))
            ELSE Failed(ParseError)

\* `x ?? 0`
NullishZero(x) == IF x.k = "undef" THEN Num(0) ELSE x

parseBrokerTimeoutOptions(options) ==
    [ttl |-> NullishZero(parseTime(Get(options, "ttl"))),
     timeout |-> NullishZero(parseTime(Get(options, "timeout")))]

DefaultTtl == 120000

DefaultTimeout == 30000

\* `x ??= d` in place of `x ||= d`: a number is never nullish.
OrDefaultNullish(x, d) == x

\* `x ||= d` on a number: 0 is falsy.
OrDefault(x, d) == IF x = 0 THEN d ELSE x

\* BrokerLock.item: the resolved options of the new handle, or the error thrown.
itemOptions(options) ==
    LET parsed == parseBrokerTimeoutOptions(options) IN
    IF parsed.ttl.k = "error" \/ parsed.timeout.k = "error"
    THEN [ok |-> FALSE, ttl |-> 0, timeout |-> 0]
    ELSE [ok |-> TRUE,
          ttl |-> OrDefault(parsed.ttl.n, DefaultTtl),
          timeout |-> OrDefault(parsed.timeout.n, DefaultTimeout)]

NoItem == [status |-> "none", id |-> "", given |-> <<>>, ttl |-> 0, timeout |-> 0,
           releaser |-> undefined]

\* The option objects item() is called with.
OptionValues == {Undef, Num(0), Num(5), Str("2 minutes"), Str("0s"), Str("soon")}

OptionObjects ==
    {<<>>} \cup {[x \in {"ttl"} |-> v] : v \in OptionValues}
           \cup {[x \in {"timeout"} |-> v] : v \in OptionValues}
           \cup {[x \in {"ttl", "timeout"} |-> IF x = "ttl" THEN p[1] ELSE p[2]] :
                    p \in OptionValues \X OptionValues}

\* The option objects used where the lock protocol, not the parsing, is explored.
LockOptionObjects == {<<>>}

(***************************************************************************)
(* BrokerLock.item(id, options)                                            *)
(***************************************************************************)
\* item() that makes a handle from whatever parsed, a failed field counting as 0.
itemLenient(h, id, options) ==
    /\ items[h].status = "none"
    /\ LET r == itemOptions(options) IN
       items' = [items EXCEPT ![h] =
                    [status |-> "item", id |-> id, given |-> options,
                     ttl |-> r.ttl, timeout |-> r.timeout, releaser |-> undefined]]
    /\ UNCHANGED <<calls, holder, toks, reg, msgs, chan>>

item(h, id, options) ==
    /\ items[h].status = "none"
    /\ LET r == itemOptions(options) IN
       items' = [items EXCEPT ![h] =
                    IF r.ok
                    THEN [status |-> "item", id |-> id, given |-> options,
                          ttl |-> r.ttl, timeout |-> r.timeout, releaser |-> undefined]
                    ELSE [status |-> ParseError, id |-> id, given |-> options,
                          ttl |-> 0, timeout |-> 0, releaser |-> undefined]]
    /\ UNCHANGED <<calls, holder, toks, reg, msgs, chan>>

(***************************************************************************)
(* Calls on a handle.                                                      *)
(***************************************************************************)
NoRes == [k |-> "none", tok |-> 0, err |-> "", b |-> FALSE]

ResRelease(t) == [k |-> "release", tok |-> t, err |-> "", b |-> FALSE]

ResUndefined == [k |-> "undefined", tok |-> 0, err |-> "", b |-> FALSE]

ResRaise(e) == [k |-> "raise", tok |-> 0, err |-> e, b |-> FALSE]

ResVoid == [k |-> "void", tok |-> 0, err |-> "", b |-> FALSE]

ResBool(x) == [k |-> "bool", tok |-> 0, err |-> "", b |-> x]

Pending == [k |-> "pending", err |-> "", b |-> FALSE]

RetThis == [k |-> "this", err |-> "", b |-> FALSE]

RetUndefined == [k |-> "undefined", err |-> "", b |-> FALSE]

RetVoid == [k |-> "void", err |-> "", b |-> FALSE]

RetBool(x) == [k |-> "bool", err |-> "", b |-> x]

Throw(e) == [k |-> "throw", err |-> e, b |-> FALSE]

\* A call that has reached its await: one adapter call made (fn, with id and the
\* options, or the Release tok invoked), the promise not settled yet.
Awaiting(h, op, fn, tok) ==
    [h |-> h, op |-> op, pc |-> "await", before |-> items[h].releaser,
     fn |-> fn, id |-> items[h].id, ttl |-> items[h].ttl, timeout |-> items[h].timeout,
     tok |-> tok, made |-> 1, res |-> NoRes, ret |-> Pending]

\* A call that ended in its synchronous part, without an adapter call.
Ended(h, op, ret) ==
    [h |-> h, op |-> op, pc |-> "done", before |-> items[h].releaser,
     fn |-> "", id |-> "", ttl |-> 0, timeout |-> 0,
     tok |-> 0, made |-> 0, res |-> NoRes, ret |-> ret]

CanCall(h) == items[h].status = "item"

Calls == 1..Len(calls)

\* acquire() without its guard.
acquireGuardOff(h) == FALSE

\* `if (this.releaser)` of acquire()
acquireGuard(h) == items[h].releaser # undefined

\* try() without its guard.
tryGuardOff(h) == FALSE

\* `if (this.releaser)` of try()
tryGuard(h) == items[h].releaser # undefined

\* `if (!this.releaser)` of release()
releaseGuard(h) == items[h].releaser = undefined

\* acquire(), up to `await this.adapter.lock(this.id, this.options)`
acquire(h) ==
    /\ CanCall(h)
    /\ calls' = Append(calls,
                    IF acquireGuard(h) THEN Ended(h, "acquire", Throw(BrokerLockError))
                    ELSE Awaiting(h, "acquire", "lock", 0))
    /\ UNCHANGED <<items, holder, toks, reg, msgs, chan>>

\* try(), up to `await this.adapter.tryLock(this.id, this.options)`
try(h) ==
    /\ CanCall(h)
    /\ calls' = Append(calls,
                    IF tryGuard(h) THEN Ended(h, "try", Throw(BrokerLockError))
                    ELSE Awaiting(h, "try", "tryLock", 0))
    /\ UNCHANGED <<items, holder, toks, reg, msgs, chan>>

\* isReserved() guarded like acquire(): refused on a handle that holds a Release.
isReservedGuarded(h) ==
    /\ CanCall(h)
    /\ calls' = Append(calls,
                    IF acquireGuard(h) THEN Ended(h, "isReserved", Throw(BrokerLockError))
                    ELSE Awaiting(h, "isReserved", "isLocked", 0))
    /\ UNCHANGED <<items, holder, toks, reg, msgs, chan>>

\* isReserved(), up to `await this.adapter.isLocked(this.id)`
isReserved(h) ==
    /\ CanCall(h)
    /\ calls' = Append(calls, Awaiting(h, "isReserved", "isLocked", 0))
    /\ UNCHANGED <<items, holder, toks, reg, msgs, chan>>

\* release(), up to `await this.releaser()`: the stored Release is invoked.
release(h) ==
    /\ CanCall(h)
    /\ IF releaseGuard(h)
       THEN /\ calls' = Append(calls, Ended(h, "release", RetVoid))
            /\ toks' = toks
       ELSE /\ calls' = Append(calls, Awaiting(h, "release", "Release", items[h].releaser))
            /\ toks' = [toks EXCEPT ![items[h].releaser].invoked = @ + 1]
    /\ UNCHANGED <<items, holder, reg, msgs, chan>>

(***************************************************************************)
(* The lock adapter (BrokerAdapterLock): it settles each promise with one  *)
(* of the outcomes its signature allows, and grants an id to one Release   *)
(* at a time.                                                              *)
(***************************************************************************)
AwaitingOp(c, op) == calls[c].pc = "await" /\ calls[c].op = op

\* lock / tryLock resolve with a new Release: the id was free and is now held.
adapterGrants(c) ==
    /\ holder[calls[c].id] = 0
    /\ toks' = Append(toks, [id |-> calls[c].id, invoked |-> 0])
    /\ holder' = [holder EXCEPT ![calls[c].id] = Len(toks) + 1]

\* lock / tryLock resolve with undefined (timeout elapsed, held elsewhere) or
\* reject with an error of the backend: the adapter's state stays as it is.
adapterRefuses == UNCHANGED <<holder, toks>>

\* The outcomes of `await adapter.lock(...)` / `await adapter.tryLock(...)`:
\* each changes the adapter as above and gives the call its settlement.
adapterLock(c, r) ==
    \/ r = ResRelease(Len(toks) + 1) /\ adapterGrants(c)
    \/ r = ResUndefined /\ adapterRefuses
    \/ r \in {ResRaise(e) : e \in AdapterErrors} /\ adapterRefuses

LockOutcomes == {ResRelease(Len(toks) + 1), ResUndefined} \cup {ResRaise(e) : e \in AdapterErrors}

\* The invoked Release settles: it resolves, and the id is free again if this
\* Release held it; or it rejects, and the id stays held.
adapterReleases(c) ==
    /\ AwaitingOp(c, "release")
    /\ holder' = [holder EXCEPT ![calls[c].id] = IF @ = calls[c].tok THEN 0 ELSE @]
    /\ calls' = [calls EXCEPT ![c].pc = "settled", ![c].res = ResVoid]
    /\ UNCHANGED <<items, toks, reg, msgs, chan>>

adapterReleaseRaises(c, e) ==
    /\ AwaitingOp(c, "release")
    /\ calls' = [calls EXCEPT ![c].pc = "settled", ![c].res = ResRaise(e)]
    /\ UNCHANGED <<items, holder, toks, reg, msgs, chan>>

(***************************************************************************)
(* The continuations after the await.                                      *)
(***************************************************************************)
Finish(c, r, ret) == calls' = [calls EXCEPT ![c].pc = "done", ![c].res = r, ![c].ret = ret]

\* An assignment that loses the awaited Release.
AwaitedLost(r) == undefined

\* What the awaited promise evaluates to when it does not reject.
Awaited(r) == IF r.k = "release" THEN r.tok ELSE undefined

\* acquire() that reports an adapter error as its own BrokerLockError.
acquireResumeWraps(c, r) ==
    /\ AwaitingOp(c, "acquire")
    /\ adapterLock(c, r)
    /\ IF r.k = "raise"
       THEN /\ Finish(c, r, Throw(BrokerLockError))
            /\ items' = items
       ELSE /\ items' = [items EXCEPT ![calls[c].h].releaser = Awaited(r)]
            /\ Finish(c, r, RetThis)
    /\ UNCHANGED <<reg, msgs, chan>>

\* `this.releaser = await this.adapter.lock(...); return this;`
acquireResume(c, r) ==
    /\ AwaitingOp(c, "acquire")
    /\ adapterLock(c, r)
    /\ IF r.k = "raise"
       THEN /\ Finish(c, r, Throw(r.err))
            /\ items' = items
       ELSE /\ items' = [items EXCEPT ![calls[c].h].releaser = Awaited(r)]
            /\ Finish(c, r, RetThis)
    /\ UNCHANGED <<reg, msgs, chan>>

\* try() that ends like acquire(): `return this`.
tryResumeReturnsThis(c, r) ==
    /\ AwaitingOp(c, "try")
    /\ adapterLock(c, r)
    /\ IF r.k = "raise"
       THEN /\ Finish(c, r, Throw(r.err))
            /\ items' = items
       ELSE /\ items' = [items EXCEPT ![calls[c].h].releaser = Awaited(r)]
            /\ Finish(c, r, RetThis)
    /\ UNCHANGED <<reg, msgs, chan>>

\* `this.releaser = await this.adapter.tryLock(...); return this.releaser ? this : undefined;`
tryResume(c, r) ==
    /\ AwaitingOp(c, "try")
    /\ adapterLock(c, r)
    /\ IF r.k = "raise"
       THEN /\ Finish(c, r, Throw(r.err))
            /\ items' = items
       ELSE /\ items' = [items EXCEPT ![calls[c].h].releaser = Awaited(r)]
            /\ Finish(c, r, IF Awaited(r) # undefined THEN RetThis ELSE RetUndefined)
    /\ UNCHANGED <<reg, msgs, chan>>

\* `return await this.adapter.isLocked(this.id);`
isReservedResume(c, r) ==
    /\ AwaitingOp(c, "isReserved")
    /\ r \in {ResBool(holder[calls[c].id] # 0)} \cup {ResRaise(e) : e \in AdapterErrors}
    /\ Finish(c, r, IF r.k = "raise" THEN Throw(r.err) ELSE RetBool(r.b))
    /\ UNCHANGED <<items, holder, toks, reg, msgs, chan>>

\* release() that forgets `this.releaser = undefined`.
releaseResumeKeeps(c) ==
    /\ calls[c].pc = "settled" /\ calls[c].op = "release"
    /\ Finish(c, calls[c].res,
              IF calls[c].res.k = "raise" THEN Throw(calls[c].res.err) ELSE RetVoid)
    /\ UNCHANGED <<items, holder, toks, reg, msgs, chan>>

\* release() that clears the field in a `finally`: also when the Release raised.
releaseResumeAlwaysClears(c) ==
    /\ calls[c].pc = "settled" /\ calls[c].op = "release"
    /\ items' = [items EXCEPT ![calls[c].h].releaser = undefined]
    /\ Finish(c, calls[c].res,
              IF calls[c].res.k = "raise" THEN Throw(calls[c].res.err) ELSE RetVoid)
    /\ UNCHANGED <<holder, toks, reg, msgs, chan>>

\* `await this.releaser(); this.releaser = undefined;`
releaseResume(c) ==
    /\ calls[c].pc = "settled" /\ calls[c].op = "release"
    /\ IF calls[c].res.k = "raise"
       THEN /\ Finish(c, calls[c].res, Throw(calls[c].res.err))
            /\ items' = items
       ELSE /\ items' = [items EXCEPT ![calls[c].h].releaser = undefined]
            /\ Finish(c, calls[c].res, RetVoid)
    /\ UNCHANGED <<holder, toks, reg, msgs, chan>>

(***************************************************************************)
(* BrokerQueueMessage                                                      *)
(***************************************************************************)
CallbackErrors == {"X1", "X2"}

DelaySeconds == {5}

\* The field initialisers of the class; pc, outcome, thrown and settled follow the
\* wrapper that consume() hands to the adapter while it runs on the message.
BrokerQueueMessage ==
    [state |-> "pending", error |-> "", tries |-> 0, delayed |-> 0,
     pc |-> "callback", outcome |-> "none", thrown |-> "", settled |-> "none",
     nfailed |-> 0]

\* failed() that records the error and leaves the state.
failedFieldsErrorOnly(msg, e) == [msg EXCEPT !.error = e]

\* message.failed(error)
failedFields(msg, e) == [msg EXCEPT !.state = "failed", !.error = e]

\* delay() that also counts a try.
delayFieldsCountsTry(msg, seconds) == [msg EXCEPT !.delayed = seconds, !.tries = @ + 1]

\* message.delay(seconds)
delayFields(msg, seconds) == [msg EXCEPT !.delayed = seconds]

(***************************************************************************)
(* BrokerQueueChannel.consume(callback, options)                           *)
(***************************************************************************)
\* The options argument when the caller passes none.
Omitted == [x \in {"(omitted)"} |-> Undef]

Object(v) == [x \in {"maxParallel"} |-> v]

ConsumeArguments ==
    {Omitted, <<>>, Object(Undef)} \cup {Object(Num(n)) : n \in 1..MaxParallel}

\* `options: { maxParallel?: number } = {}`
DefaultParameter(arg) == IF arg = Omitted THEN <<>> ELSE arg

\* Object.assign(target, source): every own key of source is copied onto target.
ObjectAssign(target, source) ==
    [x \in DOMAIN target \cup DOMAIN source |->
        IF x \in DOMAIN source THEN source[x] ELSE target[x]]

\* `Object.assign({ maxParallel: 1 }, options)`
consumeOptions(arg) == ObjectAssign(Object(Num(1)), DefaultParameter(arg))

NoRegistration ==
    [consumed |-> FALSE, given |-> Omitted, options |-> <<>>, active |-> FALSE,
     released |-> FALSE]

\* consume(): adapter.consume(name, wrapper, options, type) registers the wrapper.
consume(arg) ==
    /\ ~reg.consumed
    /\ reg' = [consumed |-> TRUE, given |-> arg, options |-> consumeOptions(arg),
               active |-> TRUE, released |-> FALSE]
    /\ UNCHANGED <<items, calls, holder, toks, msgs, chan>>

\* The Release that consume() returned is called: consumption stops.
consumeRelease ==
    /\ reg.consumed /\ ~reg.released
    /\ reg' = [reg EXCEPT !.active = FALSE, !.released = TRUE]
    /\ UNCHANGED <<items, calls, holder, toks, msgs, chan>>

Msgs == 1..Len(msgs)

InFlight == Cardinality({m \in Msgs : msgs[m].pc # "done"})

\* The adapter keeps at most maxParallel wrapper runs in flight.
UnderCap ==
    LET mp == reg.options["maxParallel"] IN mp.k = "num" => InFlight < mp.n

\* The adapter delivers a message: it creates the BrokerQueueMessage, sets its
\* tries (here: the number of deliveries before it), and calls the wrapper, which
\* calls `callback(message)`.
deliver ==
    /\ reg.active
    /\ Len(msgs) < MaxMsgs
    /\ UnderCap
    /\ msgs' = Append(msgs, [BrokerQueueMessage EXCEPT !.tries = Len(msgs)])
    /\ UNCHANGED <<items, calls, holder, toks, reg, chan>>

\* The user callback calls message.failed(error).
failed(m, e) ==
    /\ msgs[m].pc = "callback"
    /\ msgs[m].nfailed = 0
    /\ msgs' = [msgs EXCEPT ![m] = [failedFields(@, e) EXCEPT !.nfailed = 1]]
    /\ UNCHANGED <<items, calls, holder, toks, reg, chan>>

\* The user callback calls message.delay(seconds).
delay(m, seconds) ==
    /\ msgs[m].pc = "callback"
    /\ msgs[m].delayed = 0
    /\ msgs' = [msgs EXCEPT ![m] = delayFields(@, seconds)]
    /\ UNCHANGED <<items, calls, holder, toks, reg, chan>>

\* A catch block that marks the message failed and drops the error.
wrapperCatchDropsError(msg) ==
    [msg EXCEPT !.state = "failed", !.pc = "done", !.settled = "resolved"]

\* A catch block that throws the error on: the wrapper's promise rejects.
wrapperCatchRethrows(msg) == [msg EXCEPT !.pc = "done", !.settled = "rejected"]

\* `catch (error) { message.state = 'failed'; message.error = error; }`: the
\* wrapper's promise resolves.
wrapperCatch(msg) ==
    [msg EXCEPT !.state = "failed", !.error = msg.thrown, !.pc = "done",
                !.settled = "resolved"]

\* `await callback(message)` did not throw: the wrapper's promise resolves.
wrapperReturn(msg) == [msg EXCEPT !.pc = "done", !.settled = "resolved"]

\* A consumption loop that is handed a rejected promise stops delivering.
adapterSees(settled) ==
    reg' = IF settled = "rejected" THEN [reg EXCEPT !.active = FALSE] ELSE reg

\* The callback returns, or its promise resolves.
callbackReturns(m) ==
    /\ msgs[m].pc = "callback"
    /\ msgs' = [msgs EXCEPT ![m].pc = "awaited", ![m].outcome = "returned"]
    /\ UNCHANGED <<items, calls, holder, toks, reg, chan>>

\* The callback's promise rejects.
callbackRejects(m, e) ==
    /\ msgs[m].pc = "callback"
    /\ msgs' = [msgs EXCEPT ![m].pc = "awaited", ![m].outcome = "threw",
                            ![m].thrown = e]
    /\ UNCHANGED <<items, calls, holder, toks, reg, chan>>

\* The callback throws synchronously: the catch block runs at once.
callbackThrows(m, e) ==
    /\ msgs[m].pc = "callback"
    /\ LET done == wrapperCatch([msgs[m] EXCEPT !.outcome = "threw", !.thrown = e]) IN
       /\ msgs' = [msgs EXCEPT ![m] = done]
       /\ adapterSees(done.settled)
    /\ UNCHANGED <<items, calls, holder, toks, chan>>

\* The wrapper continues after `await callback(message)`.
wrapperResume(m) ==
    /\ msgs[m].pc = "awaited"
    /\ LET done == IF msgs[m].outcome = "threw" THEN wrapperCatch(msgs[m])
                   ELSE wrapperReturn(msgs[m]) IN
       /\ msgs' = [msgs EXCEPT ![m] = done]
       /\ adapterSees(done.settled)
    /\ UNCHANGED <<items, calls, holder, toks, chan>>

(***************************************************************************)
(* Bus and queue channels.  BrokerBus.channel(name) and                    *)
(* BrokerQueue.channel(name) make a channel object that keeps its name and *)
(* the adapter; each method hands its arguments to the adapter method of   *)
(* the same name, with this.name first, in the synchronous part of the     *)
(* call, and what it returns is what the adapter's promise settles with.   *)
(* The adapters are ones that deliver by name: the bus adapter calls every *)
(* callback subscribed under the published name, the queue adapter keeps a *)
(* produced message under its name until it hands it to one consumer       *)
(* registered under that name.                                             *)
(***************************************************************************)
\* The channel objects: two of each kind made with the same name, one with another.
BusChannels == {"b1", "b2", "b3"}

QueueChannels == {"q1", "q2", "q3"}

\* `public name: string` of the channel object.
ChannelName(ch) == IF ch \in {"b3", "q3"} THEN "mail" ELSE "jobs"

ChannelNames == {"jobs", "mail"}

Messages == {"m1", "m2"}

NoMessage == ""

\* Nothing called on a channel yet: no call, no adapter call, nothing queued or observed.
NoChannelCalls ==
    [calls |-> <<>>, adapter |-> <<>>, queue |-> [n \in ChannelNames |-> <<>>], seen |-> {}]

\* A call on a channel object, and the adapter call `adapter.fn(name, message, ...)`.
ChannelCall(ch, fn, message) == [ch |-> ch, fn |-> fn, message |-> message]

AdapterCall(fn, name, message) == [fn |-> fn, name |-> name, message |-> message]

AdapterCalls == 1..Len(chan.adapter)

\* The callbacks the adapter holds under a name: each is known by the adapter call
\* that registered it.
Registered(fn, name) ==
    {i \in AdapterCalls : chan.adapter[i].fn = fn /\ chan.adapter[i].name = name}

\* The callback registered by adapter call cb is called with the message of adapter call at.
Observation(cb, at, message) == [cb |-> cb, at |-> at, message |-> message]

\* The bus adapter's publish(name, message): every callback subscribed under name is called.
adapterPublish(name, message) ==
    {Observation(cb, Len(chan.adapter) + 1, message) : cb \in Registered("subscribe", name)}

\* publish() that addresses the adapter's default stream instead of the channel's.
publishUnnamed(ch, message) ==
    /\ chan' = [chan EXCEPT
            !.calls = Append(@, ChannelCall(ch, "publish", message)),
            !.adapter = Append(@, AdapterCall("publish", "mail", message)),
            !.seen = @ \cup adapterPublish("mail", message)]
    /\ UNCHANGED <<items, calls, holder, toks, reg, msgs>>

\* BrokerBusChannel.publish: `return this.adapter.publish(this.name, message, this.type)`
publish(ch, message) ==
    /\ chan' = [chan EXCEPT
            !.calls = Append(@, ChannelCall(ch, "publish", message)),
            !.adapter = Append(@, AdapterCall("publish", ChannelName(ch), message)),
            !.seen = @ \cup adapterPublish(ChannelName(ch), message)]
    /\ UNCHANGED <<items, calls, holder, toks, reg, msgs>>

\* BrokerBusChannel.subscribe: `return this.adapter.subscribe(this.name, callback, this.type)`
subscribe(ch) ==
    /\ chan' = [chan EXCEPT
            !.calls = Append(@, ChannelCall(ch, "subscribe", NoMessage)),
            !.adapter = Append(@, AdapterCall("subscribe", ChannelName(ch), NoMessage))]
    /\ UNCHANGED <<items, calls, holder, toks, reg, msgs>>

\* BrokerQueueChannel.produce: `await this.adapter.produce(this.name, message, this.type, options)`;
\* the queue adapter keeps the message under the name.
produce(ch, message) ==
    /\ chan' = [chan EXCEPT
            !.calls = Append(@, ChannelCall(ch, "produce", message)),
            !.adapter = Append(@, AdapterCall("produce", ChannelName(ch), message)),
            !.queue[ChannelName(ch)] = Append(@, Len(chan.adapter) + 1)]
    /\ UNCHANGED <<items, calls, holder, toks, reg, msgs>>

\* BrokerQueueChannel.consume, as far as the name goes:
\* `return await this.adapter.consume(this.name, async (message) => {...}, ..., this.type)`
consumeNamed(ch) ==
    /\ chan' = [chan EXCEPT
            !.calls = Append(@, ChannelCall(ch, "consume", NoMessage)),
            !.adapter = Append(@, AdapterCall("consume", ChannelName(ch), NoMessage))]
    /\ UNCHANGED <<items, calls, holder, toks, reg, msgs>>

\* The queue adapter hands the oldest message kept under a name to a consumer
\* registered under that name.
adapterHandsOver(name, cb) ==
    /\ chan.queue[name] # <<>>
    /\ cb \in Registered("consume", name)
    /\ LET at == Head(chan.queue[name]) IN
       chan' = [chan EXCEPT
            !.queue[name] = Tail(@),
            !.seen = @ \cup {Observation(cb, at, chan.adapter[at].message)}]
    /\ UNCHANGED <<items, calls, holder, toks, reg, msgs>>

(***************************************************************************)
(* Specifications.                                                         *)
(***************************************************************************)
\* Two handles made by item() for the same lock id, nothing called yet.
LockItem(o) ==
    [status |-> "item", id |-> "a", given |-> o, ttl |-> itemOptions(o).ttl,
     timeout |-> itemOptions(o).timeout, releaser |-> undefined]

Init ==
    /\ items \in [Slots -> {LockItem(o) : o \in LockOptionObjects}]
    /\ calls = <<>>
    /\ holder = [i \in LockIds |-> 0]
    /\ toks = <<>>
    /\ reg = NoRegistration
    /\ msgs = <<>>
    /\ chan = NoChannelCalls

\* The lock handles under any interleaving of calls, overlapping calls included.
Next ==
    \/ \E h \in Slots : Len(calls) < MaxCalls /\ acquire(h)
    \/ \E h \in Slots : Len(calls) < MaxCalls /\ try(h)
    \/ \E h \in Slots : Len(calls) < MaxCalls /\ release(h)
    \/ \E c \in Calls, r \in LockOutcomes : acquireResume(c, r)
    \/ \E c \in Calls, r \in LockOutcomes : tryResume(c, r)
    \/ \E c \in Calls : adapterReleases(c)
    \/ \E c \in Calls, e \in AdapterErrors : adapterReleaseRaises(c, e)
    \/ \E c \in Calls : releaseResume(c)

Spec == Init /\ [][Next]_vars

\* Sequential use: a call on a handle starts when the handle's earlier calls have ended.
Idle(h) == \A c \in Calls : calls[c].h = h => calls[c].pc = "done"

NextSeq ==
    \/ \E h \in Slots : Len(calls) < MaxSeqCalls /\ Idle(h) /\ acquire(h)
    \/ \E h \in Slots : Len(calls) < MaxSeqCalls /\ Idle(h) /\ try(h)
    \/ \E h \in Slots : Len(calls) < MaxSeqCalls /\ Idle(h) /\ release(h)
    \/ \E c \in Calls, r \in LockOutcomes : acquireResume(c, r)
    \/ \E c \in Calls, r \in LockOutcomes : tryResume(c, r)
    \/ \E c \in Calls : adapterReleases(c)
    \/ \E c \in Calls, e \in AdapterErrors : adapterReleaseRaises(c, e)
    \/ \E c \in Calls : releaseResume(c)

SpecSeq == Init /\ [][NextSeq]_vars

\* The lock handles with isReserved() among the calls, under any interleaving.
NextReserved ==
    \/ \E h \in Slots : Len(calls) < MaxReservedCalls /\ acquire(h)
    \/ \E h \in Slots : Len(calls) < MaxReservedCalls /\ try(h)
    \/ \E h \in Slots : Len(calls) < MaxReservedCalls /\ release(h)
    \/ \E h \in Slots : Len(calls) < MaxReservedCalls /\ isReserved(h)
    \/ \E c \in Calls, r \in LockOutcomes : acquireResume(c, r)
    \/ \E c \in Calls, r \in LockOutcomes : tryResume(c, r)
    \/ \E c \in Calls : adapterReleases(c)
    \/ \E c \in Calls, e \in AdapterErrors : adapterReleaseRaises(c, e)
    \/ \E c \in Calls : releaseResume(c)
    \/ \E c \in Calls, r \in {ResBool(TRUE), ResBool(FALSE)} \cup {ResRaise(e) : e \in AdapterErrors} :
            isReservedResume(c, r)

SpecReserved == Init /\ [][NextReserved]_vars

\* The channels: any calls on the bus and queue channel objects, in any order.
NextChannel ==
    \/ \E ch \in BusChannels, message \in Messages :
            Len(chan.calls) < MaxChannelCalls /\ publish(ch, message)
    \/ \E ch \in BusChannels : Len(chan.calls) < MaxChannelCalls /\ subscribe(ch)
    \/ \E ch \in QueueChannels, message \in Messages :
            Len(chan.calls) < MaxChannelCalls /\ produce(ch, message)
    \/ \E ch \in QueueChannels : Len(chan.calls) < MaxChannelCalls /\ consumeNamed(ch)
    \/ \E name \in ChannelNames, cb \in AdapterCalls : adapterHandsOver(name, cb)

SpecChannel == Init /\ [][NextChannel]_vars

\* Nothing constructed yet.
InitNew ==
    /\ items = [h \in Slots |-> NoItem]
    /\ calls = <<>>
    /\ holder = [i \in LockIds |-> 0]
    /\ toks = <<>>
    /\ reg = NoRegistration
    /\ msgs = <<>>
    /\ chan = NoChannelCalls

\* Handles under construction: item() on every option object, and the first adapter calls.
NextItem ==
    \/ \E h \in Slots, id \in LockIds, o \in OptionObjects : item(h, id, o)
    \/ \E h \in Slots : Len(calls) < MaxItemCalls /\ acquire(h)
    \/ \E h \in Slots : Len(calls) < MaxItemCalls /\ try(h)

SpecItem == InitNew /\ [][NextItem]_vars

\* One consume registration and the messages delivered to it.
NextQueue ==
    \/ \E arg \in ConsumeArguments : consume(arg)
    \/ consumeRelease
    \/ deliver
    \/ \E m \in Msgs, e \in CallbackErrors : failed(m, e)
    \/ \E m \in Msgs, sec \in DelaySeconds : delay(m, sec)
    \/ \E m \in Msgs : callbackReturns(m)
    \/ \E m \in Msgs, e \in CallbackErrors : callbackRejects(m, e)
    \/ \E m \in Msgs, e \in CallbackErrors : callbackThrows(m, e)
    \/ \E m \in Msgs : wrapperResume(m)

SpecQueue == InitNew /\ [][NextQueue]_vars

(***************************************************************************)
(* Properties.                                                             *)
(***************************************************************************)
Acquiring == {"acquire", "try"}

\* c2 is the call that follows c1 on the same handle.
Follows(c1, c2) ==
    /\ c1 < c2
    /\ calls[c1].h = calls[c2].h
    /\ \A c \in (c1 + 1)..(c2 - 1) : calls[c].h # calls[c1].h

\* c is the latest call on its handle.
Latest(c) == \A c2 \in Calls : c2 > c => calls[c2].h # calls[c].h

acquired(h) == items[h].releaser # undefined

\* C1, as claimed: under sequential use, whatever the adapter answered to a completed
\* acquire() or try(), the next acquire() or try() on the handle, with no release()
\* in between, fails with BrokerLockError.
C1_AnySecondCallFails ==
    \A c1, c2 \in Calls :
        (/\ Follows(c1, c2)
         /\ calls[c1].op \in Acquiring /\ calls[c2].op \in Acquiring
         /\ calls[c2].pc = "done")
            => calls[c2].ret = Throw(BrokerLockError)

\* C1, amended: under sequential use, once an acquire() or try() has completed with a
\* Release from the adapter, the next acquire() or try() on the handle, with no
\* release() in between, fails with BrokerLockError and makes no adapter call; when
\* it completed with no Release (the adapter yielded undefined, or raised), the next
\* acquire() or try() is not refused and calls the adapter.
C1_SecondCallAfterSuccessFails ==
    \A c1, c2 \in Calls :
        (Follows(c1, c2) /\ calls[c1].op \in Acquiring /\ calls[c2].op \in Acquiring)
            => /\ calls[c1].res.k = "release"
                    => (calls[c2].ret = Throw(BrokerLockError) /\ calls[c2].made = 0)
               /\ calls[c1].res.k \in {"undefined", "raise"}
                    => (calls[c2].ret # Throw(BrokerLockError) /\ calls[c2].made = 1)

C1_Witness ==
    \E c1, c2 \in Calls :
        /\ Follows(c1, c2)
        /\ calls[c1].op = "try" /\ calls[c1].res.k = "release"
        /\ calls[c2].op = "acquire" /\ calls[c2].ret = Throw(BrokerLockError)

\* The handle acquired by c0 was then released by c1 and again by c2, both ended.
TwoReleases(c0, c1, c2) ==
    /\ Follows(c0, c1) /\ Follows(c1, c2)
    /\ calls[c0].op \in Acquiring /\ calls[c0].res.k = "release"
    /\ calls[c1].op = "release" /\ calls[c2].op = "release"
    /\ calls[c2].pc = "done"

OnceAndFree(c0, c2) ==
    /\ toks[calls[c0].res.tok].invoked = 1
    /\ Latest(c2) => ~acquired(calls[c2].h)

\* C2, as claimed: under sequential use, release() and release() again on a handle
\* that acquired the lock invoke the adapter's Release once in total and leave
\* acquired false, however the first release() ended.
C2_TwoReleasesInvokeOnce ==
    \A c0, c1, c2 \in Calls : TwoReleases(c0, c1, c2) => OnceAndFree(c0, c2)

\* The step is a release() on a handle that holds nothing.
ReleasesNothing ==
    /\ Len(calls') = Len(calls) + 1
    /\ calls'[Len(calls')].op = "release"
    /\ calls'[Len(calls')].before = undefined

\* C2, amended: under sequential use, when the first release() on a handle that
\* acquired the lock returned without raising, a second release() invokes nothing:
\* the Release was invoked once in total and acquired is false; and a release() on a
\* handle that holds nothing makes no adapter call, returns at once, and changes
\* neither the handle nor the adapter.
C2_IdempotentRelease ==
    /\ [](\A c0, c1, c2 \in Calls :
            (TwoReleases(c0, c1, c2) /\ calls[c1].ret = RetVoid)
                => (OnceAndFree(c0, c2) /\ calls[c2].made = 0))
    /\ [](\A c \in Calls :
            (calls[c].op = "release" /\ calls[c].before = undefined)
                => (calls[c].made = 0 /\ calls[c].ret = RetVoid))
    /\ [][ReleasesNothing => UNCHANGED <<items, holder, toks>>]_vars

C2_Witness ==
    \E c0, c1, c2 \in Calls :
        /\ TwoReleases(c0, c1, c2)
        /\ calls[c1].ret = RetVoid
        /\ calls[c1].made = 1
        /\ calls[c2].ret = RetVoid

\* The step is a call that ended with BrokerLockError.
RaisesLockError ==
    /\ Len(calls') = Len(calls) + 1
    /\ calls'[Len(calls')].ret = Throw(BrokerLockError)

\* C3: in every interleaving, acquire() and try() raise BrokerLockError exactly when
\* the handle holds a Release at the moment of the call; the raising call makes no
\* adapter call and leaves the handle and the adapter as they were.
C3_LockErrorIffHeld ==
    /\ [](\A c \in Calls :
            calls[c].op \in Acquiring =>
                /\ (calls[c].ret = Throw(BrokerLockError)) <=> (calls[c].before # undefined)
                /\ (calls[c].before # undefined) => (calls[c].made = 0 /\ calls[c].pc = "done")
                /\ (calls[c].before = undefined) => calls[c].made = 1)
    /\ [][RaisesLockError => UNCHANGED <<items, holder, toks>>]_vars

C3_Witness ==
    \E c1, c2 \in Calls :
        /\ calls[c1].op = "try" /\ calls[c1].ret = Throw(BrokerLockError)
        /\ calls[c2].op = "acquire" /\ calls[c2].ret = RetThis /\ calls[c2].before = undefined

\* C4, as claimed: a handle that reports acquired is the holder of its id at the
\* adapter, and two handles of one id never report acquired together.
C4_AcquiredIsHolder ==
    /\ \A h \in Slots : acquired(h) => holder[items[h].id] = items[h].releaser
    /\ \A h1, h2 \in Slots :
            (h1 # h2 /\ items[h1].id = items[h2].id) => ~(acquired(h1) /\ acquired(h2))

\* The state the second part of C4 excludes: both handles of one id report acquired.
C4_BothAcquired ==
    \E h1, h2 \in Slots : h1 # h2 /\ items[h1].id = items[h2].id /\ acquired(h1) /\ acquired(h2)

\* C5: for every message whose callback threw or rejected, the wrapper's promise
\* resolves (it never rejects towards the adapter), and when it has, the message's
\* state is 'failed' and its error is the thrown value.
C5_ThrownBecomesState ==
    \A m \in Msgs :
        /\ msgs[m].settled # "rejected"
        /\ (msgs[m].pc = "done" /\ msgs[m].outcome = "threw")
            => /\ msgs[m].settled = "resolved"
               /\ msgs[m].state = "failed"
               /\ msgs[m].error = msgs[m].thrown

\* The callback called failed() with one error and then threw another.
C5_Witness ==
    \E m \in Msgs :
        /\ msgs[m].pc = "done" /\ msgs[m].outcome = "threw"
        /\ msgs[m].nfailed = 1
        /\ msgs[m].error = "X2"
        /\ reg.active

\* The step is the wrapper ending its run on message m after the callback threw.
CatchStep(m) ==
    /\ msgs[m].pc # "done"
    /\ msgs'[m].pc = "done"
    /\ msgs'[m].outcome = "threw"

\* C6: the registration is active from consume() until its Release is called,
\* whatever the callbacks did; the step that records a callback failure on message A
\* changes A's state and error and nothing of any other message; and a message whose
\* wrapper run has ended is not changed again.
C6_FailureIsolation ==
    /\ []((reg.consumed /\ ~reg.released) => reg.active)
    /\ [][\A m \in Msgs :
            /\ CatchStep(m) =>
                /\ \A b \in Msgs \ {m} : msgs'[b] = msgs[b]
                /\ msgs'[m].tries = msgs[m].tries
                /\ msgs'[m].delayed = msgs[m].delayed
                /\ reg' = reg
            /\ msgs[m].pc = "done" => msgs'[m] = msgs[m]]_vars

\* With maxParallel 1, message 1 failed by a throw, and message 2, delivered after
\* that, ran its callback to a normal return.
C6_Witness ==
    /\ reg.active
    /\ reg.options["maxParallel"] = Num(1)
    /\ Len(msgs) = 2
    /\ msgs[1].pc = "done" /\ msgs[1].outcome = "threw" /\ msgs[1].state = "failed"
    /\ msgs[2].pc = "done" /\ msgs[2].outcome = "returned" /\ msgs[2].state = "pending"

\* C7, as claimed: after the wrapper has completed on a message whose callback
\* returned normally (without calling failed), the message's state is 'done'.
C7_NormalReturnIsDone ==
    \A m \in Msgs :
        (msgs[m].pc = "done" /\ msgs[m].outcome = "returned" /\ msgs[m].nfailed = 0)
            => msgs[m].state = "done"

\* C7, amended: a message starts 'pending'; the core only ever moves it to 'failed',
\* when the callback throws or failed(err) is called; after a normal return of a
\* callback that did not call failed() the wrapper leaves it 'pending' (the core
\* never sets 'done').
C7_LifeCycle ==
    \A m \in Msgs :
        /\ msgs[m].state \in {"pending", "failed"}
        /\ (msgs[m].state = "failed")
            <=> (msgs[m].nfailed > 0 \/ (msgs[m].pc = "done" /\ msgs[m].outcome = "threw"))
        /\ (msgs[m].pc = "done" /\ msgs[m].outcome = "returned" /\ msgs[m].nfailed = 0)
            => msgs[m].state = "pending"

C7_Witness ==
    \E m1, m2 \in Msgs :
        /\ msgs[m1].pc = "done" /\ msgs[m1].outcome = "returned"
        /\ msgs[m1].nfailed = 0 /\ msgs[m1].state = "pending"
        /\ msgs[m2].pc = "done" /\ msgs[m2].outcome = "returned"
        /\ msgs[m2].nfailed = 1 /\ msgs[m2].state = "failed"

\* C8, as claimed: adapter.consume receives maxParallel n when the caller gave the
\* number n, and 1 when the caller gave no options, an empty object, or maxParallel
\* undefined.
C8_MaxParallelDefault ==
    reg.consumed =>
        reg.options["maxParallel"] =
            IF "maxParallel" \in DOMAIN reg.given /\ reg.given["maxParallel"].k = "num"
            THEN reg.given["maxParallel"]
            ELSE Num(1)

\* What a field of the options resolves to, before the default.
Resolved(o, key) == parseTime(Get(o, key))

\* The default where the field is absent or resolves to 0, the number otherwise.
Expected(o, key, default) ==
    LET v == Resolved(o, key) IN
    IF v.k = "undef" \/ (v.k = "num" /\ v.n = 0) THEN default ELSE v.n

C10_TryOutcome ==
    \A c \in Calls :
        (calls[c].op = "try" /\ calls[c].before = undefined) =>
            /\ calls[c].made = 1 /\ calls[c].fn = "tryLock"
            /\ calls[c].id = items[calls[c].h].id
            /\ (calls[c].pc = "done" /\ calls[c].res.k = "undefined") =>
                    /\ calls[c].ret = RetUndefined
                    /\ Latest(c) => ~acquired(calls[c].h)
                    /\ \A c2 \in Calls :
                            (Follows(c, c2) /\ calls[c2].op \in Acquiring)
                                => (calls[c2].ret # Throw(BrokerLockError) /\ calls[c2].made = 1)
            /\ (calls[c].pc = "done" /\ calls[c].res.k = "release") =>
                    /\ calls[c].ret = RetThis
                    /\ Latest(c) => items[calls[c].h].releaser = calls[c].res.tok

\* The lock was held by the other handle: try() returned undefined, and the next
\* try() on the same handle, after the other released, got the Release.
C10_Witness ==
    \E c1, c2 \in Calls :
        /\ Follows(c1, c2)
        /\ calls[c1].op = "try" /\ calls[c1].ret = RetUndefined
        /\ calls[c2].op = "try" /\ calls[c2].ret = RetThis
        /\ acquired(calls[c2].h)

\* The step is an acquire() or try() ending with the error the adapter raised.
AdapterErrorStep(c) ==
    /\ calls[c].pc = "await" /\ calls[c].op \in Acquiring
    /\ calls'[c].pc = "done" /\ calls'[c].res.k = "raise"

\* C11: under sequential use, when adapter.lock or adapter.tryLock raises E, the
\* acquire() or try() throws exactly E (never BrokerLockError), the step leaves the
\* handle as it was, unacquired, and the next acquire() or try() on the handle is
\* not refused and makes an adapter call of its own.
C11_AdapterErrorPassesThrough ==
    /\ [](\A c \in Calls :
            (calls[c].op \in Acquiring /\ calls[c].res.k = "raise") =>
                /\ calls[c].res.err \in AdapterErrors
                /\ calls[c].ret = Throw(calls[c].res.err)
                /\ Latest(c) => ~acquired(calls[c].h)
                /\ \A c2 \in Calls :
                        (Follows(c, c2) /\ calls[c2].op \in Acquiring)
                            => (calls[c2].ret # Throw(BrokerLockError) /\ calls[c2].made = 1))
    /\ [][\A c \in Calls : AdapterErrorStep(c) => UNCHANGED <<items, holder, toks>>]_vars

\* adapter.lock raised in acquire(); the try() that followed got a Release.
C11_Witness ==
    \E c1, c2 \in Calls :
        /\ Follows(c1, c2)
        /\ calls[c1].op = "acquire" /\ calls[c1].ret = Throw("E1")
        /\ calls[c2].op = "try" /\ calls[c2].ret = RetThis /\ calls[c2].fn = "tryLock"

\* The option object has a string that is no duration.
Malformed(o) ==
    \E key \in DOMAIN o : o[key].k = "str" /\ o[key].s \notin DurationStrings

\* The adapter calls a handle makes to take the lock.
LockCalls == {c \in Calls : calls[c].made = 1 /\ calls[c].fn \in {"lock", "tryLock"}}

\* C12: item() with a malformed duration fails there, makes no handle and no adapter
\* call; every adapter.lock / adapter.tryLock call of a handle that was made carries
\* the integer ttl and timeout the handle got at construction, which never change,
\* so two calls of one handle carry the same values.
C12_ResolvedOnce ==
    /\ [](\A h \in Slots :
            /\ items[h].status # "none" =>
                    (items[h].status = ParseError <=> Malformed(items[h].given))
            /\ items[h].status = ParseError => \A c \in Calls : calls[c].h # h)
    /\ [](\A c \in LockCalls :
            /\ calls[c].ttl \in Nat /\ calls[c].timeout \in Nat
            /\ calls[c].ttl = Expected(items[calls[c].h].given, "ttl", 120000)
            /\ calls[c].timeout = Expected(items[calls[c].h].given, "timeout", 30000)
            /\ \A c2 \in LockCalls :
                    calls[c2].h = calls[c].h =>
                        (calls[c2].ttl = calls[c].ttl /\ calls[c2].timeout = calls[c].timeout))
    /\ [][\A h \in Slots :
            /\ items[h].status = "none" /\ items'[h].status # "none" => calls' = calls
            /\ items[h].status # "none" =>
                    (items'[h].ttl = items[h].ttl /\ items'[h].timeout = items[h].timeout
                        /\ items'[h].status = items[h].status)]_vars

\* One item() failed on the string "soon"; a handle made with ttl 5 and timeout "0s"
\* passed 5 and 30000 to adapter.lock and again to adapter.tryLock.
C12_Witness ==
    /\ \E h \in Slots : items[h].status = ParseError /\ Get(items[h].given, "ttl") = Str("soon")
    /\ \E c1, c2 \in Calls :
        /\ c1 < c2 /\ calls[c1].h = calls[c2].h
        /\ calls[c1].fn = "lock" /\ calls[c2].fn = "tryLock"
        /\ Get(items[calls[c1].h].given, "ttl") = Num(5)
        /\ Get(items[calls[c1].h].given, "timeout") = Str("0s")
        /\ calls[c2].ttl = 5 /\ calls[c2].timeout = 30000

\* The step starts an isReserved() call or ends one.
ReservedStep ==
    \/ /\ Len(calls') = Len(calls) + 1
       /\ calls'[Len(calls')].op = "isReserved"
    \/ /\ Len(calls') = Len(calls)
       /\ \E c \in Calls : calls[c].op = "isReserved" /\ calls[c].pc # calls'[c].pc

\* C13: in every state of the handle, acquired or not, isReserved() makes one adapter
\* call, isLocked with the handle's id, ends with what that call gave (its boolean, or
\* the error the adapter raised, never BrokerLockError), and neither its start nor its
\* end changes the handle's stored Release, acquired flag and resolved options, nor
\* the adapter's locks.
C13_IsReservedFrame ==
    /\ [](\A c \in Calls :
            calls[c].op = "isReserved" =>
                /\ calls[c].made = 1 /\ calls[c].fn = "isLocked"
                /\ calls[c].id = items[calls[c].h].id
                /\ calls[c].ret # Throw(BrokerLockError)
                /\ calls[c].pc = "done" =>
                        \/ calls[c].res.k = "bool" /\ calls[c].ret = RetBool(calls[c].res.b)
                        \/ calls[c].res.k = "raise" /\ calls[c].ret = Throw(calls[c].res.err))
    /\ [][ReservedStep => UNCHANGED <<items, holder, toks>>]_vars

\* isReserved() on a handle holding a Release returned true, and the handle still
\* holds that Release.
C13_Witness ==
    \E c \in Calls :
        /\ calls[c].op = "isReserved" /\ calls[c].before # undefined
        /\ calls[c].ret = RetBool(TRUE)
        /\ items[calls[c].h].releaser = calls[c].before

ChannelCalls == 1..Len(chan.calls)

\* The adapter calls that carry a message, and the ones that register a callback, by kind.
Sends(fn) == {i \in AdapterCalls : chan.adapter[i].fn = fn}

\* C14: the i-th call on a channel makes the i-th adapter call and no other: the
\* adapter method of the same name, with the channel's name and the message given.
\* With adapters that deliver by name, every subscriber registered through a bus
\* channel of some name before a publish() through a bus channel of the same name
\* (the same channel object or another) observes that message once, and no other
\* subscriber does; a produced message is still kept by the queue adapter under its
\* name or was observed by exactly one consumer, registered through a queue channel
\* of the same name.
C14_OneAdapterCallByName ==
    /\ Len(chan.adapter) = Len(chan.calls)
    /\ \A i \in ChannelCalls :
            chan.adapter[i] = AdapterCall(chan.calls[i].fn, ChannelName(chan.calls[i].ch),
                                          chan.calls[i].message)
    /\ \A at \in Sends("publish"), cb \in Sends("subscribe") :
            (cb < at /\ ChannelName(chan.calls[cb].ch) = ChannelName(chan.calls[at].ch))
                <=> Observation(cb, at, chan.calls[at].message) \in chan.seen
    /\ \A at \in Sends("produce") :
            LET name == ChannelName(chan.calls[at].ch)
                kept == {k \in 1..Len(chan.queue[name]) : chan.queue[name][k] = at}
                got == {o \in chan.seen : o.at = at}
            IN /\ Cardinality(kept) + Cardinality(got) = 1
               /\ \A o \in got :
                    /\ o.message = chan.calls[at].message
                    /\ chan.calls[o.cb].fn = "consume"
                    /\ ChannelName(chan.calls[o.cb].ch) = name
    /\ \A o \in chan.seen :
            /\ o.at \in Sends("publish") \cup Sends("produce")
            /\ o.message = chan.calls[o.at].message

\* Subscribers were registered on b2 (same name as b1) and on b3 (another name); the
\* message published on b1 was observed by the first and not by the second.
C14_Witness ==
    /\ chan.calls = <<ChannelCall("b2", "subscribe", NoMessage),
                      ChannelCall("b3", "subscribe", NoMessage),
                      ChannelCall("b1", "publish", "m2")>>
    /\ chan.seen = {Observation(1, 3, "m2")}

\* The step is the continuation of the release() call that invoked the Release t.
ReleasedBy(h, t) ==
    \E c \in Calls :
        /\ calls[c].h = h /\ calls[c].op = "release" /\ calls[c].tok = t
        /\ calls[c].pc = "settled" /\ calls'[c].pc = "done"

\* C15: in every interleaving of the calls on a handle, overlapping ones included, a
\* Release that the handle has stored is replaced or cleared only by the continuation
\* of a release() call that invoked that Release, never by the result of a later
\* acquire() or try().
C15_NoReleaserOverwrite ==
    [][\A h \in Slots :
            (items[h].releaser # undefined /\ items'[h].releaser # items[h].releaser)
                => ReleasedBy(h, items[h].releaser)]_vars

\* C16: in every interleaving of release() calls, overlapping ones included, every
\* Release the adapter handed out has been invoked at most once.
C16_ReleaseInvokedOnce ==
    \A t \in 1..Len(toks) : toks[t].invoked <= 1

\* C17: whatever the adapter answered, an acquire() that has returned the handle got
\* a Release from adapter.lock, and the handle, while this is its latest call, is
\* acquired.
C17_ReturnedHandleHoldsLock ==
    \A c \in Calls :
        (calls[c].op = "acquire" /\ calls[c].ret = RetThis) =>
            /\ calls[c].res.k = "release"
            /\ Latest(c) => acquired(calls[c].h)

\* c is an acquire() or try() that succeeded: the adapter gave it a Release.
Succeeded(c) == calls[c].op \in Acquiring /\ calls[c].res.k = "release"

\* c is a release() that completed: it returned, it did not raise.
Completed(c) == calls[c].op = "release" /\ calls[c].ret = RetVoid

\* C18: under sequential use of a handle, acquired is true exactly when an acquire()
\* or try() on it has succeeded (the adapter gave it a Release) and no release() on it
\* has completed since; a try() returns the handle exactly when it succeeded; and the
\* acquire() or try() that follows a completed release() does not raise
\* BrokerLockError and makes an adapter call of its own, in every round.
C18_LifeCycle ==
    /\ \A h \in Slots :
            acquired(h) <=>
                \E c \in Calls :
                    /\ calls[c].h = h /\ Succeeded(c)
                    /\ \A c2 \in Calls : (c2 > c /\ calls[c2].h = h) => ~Completed(c2)
    /\ \A c \in Calls :
            (calls[c].op = "try" /\ calls[c].pc = "done") =>
                (calls[c].ret = RetThis <=> Succeeded(c))
    /\ \A c1, c2 \in Calls :
            (Completed(c1) /\ Follows(c1, c2) /\ calls[c2].op \in Acquiring) =>
                /\ calls[c2].ret # Throw(BrokerLockError)
                /\ calls[c2].made = 1
                /\ calls[c2].fn = IF calls[c2].op = "acquire" THEN "lock" ELSE "tryLock"

\* Two rounds on one handle: acquire(), release(), try(), release(), each with the
\* adapter's Release invoked, and the handle is unacquired at the end.
C18_Witness ==
    \E h \in Slots :
        /\ Len(calls) = 4
        /\ \A c \in Calls : calls[c].h = h /\ calls[c].made = 1 /\ calls[c].pc = "done"
        /\ calls[1].op = "acquire" /\ Succeeded(1)
        /\ Completed(2)
        /\ calls[3].op = "try" /\ Succeeded(3)
        /\ Completed(4)
        /\ ~acquired(h)

\* c is a release() whose Release raised.
ReleaseRaised(c) ==
    calls[c].op = "release" /\ calls[c].pc = "done" /\ calls[c].res.k = "raise"

\* c2 comes after c on the same handle with only acquire() and try() calls between.
NextAfterAttempts(c, c2) ==
    /\ c < c2
    /\ calls[c2].h = calls[c].h
    /\ \A k \in (c + 1)..(c2 - 1) : calls[k].h = calls[c].h => calls[k].op \in Acquiring

\* C19: under sequential use, when the stored Release raises E during release(),
\* release() raises E, the step leaves the handle holding the same Release (acquired
\* stays true), every acquire() or try() that follows fails with BrokerLockError
\* without an adapter call, and the release() that follows invokes the same Release.
C19_FailedReleaseKeepsOwnership ==
    /\ [](\A c \in Calls :
            ReleaseRaised(c) =>
                /\ calls[c].ret = Throw(calls[c].res.err)
                /\ calls[c].tok # undefined
                /\ Latest(c) => items[calls[c].h].releaser = calls[c].tok
                /\ \A c2 \in Calls :
                        NextAfterAttempts(c, c2) =>
                            /\ calls[c2].before = calls[c].tok
                            /\ calls[c2].op \in Acquiring =>
                                    (calls[c2].ret = Throw(BrokerLockError) /\ calls[c2].made = 0)
                            /\ calls[c2].op = "release" =>
                                    (calls[c2].made = 1 /\ calls[c2].fn = "Release"
                                        /\ calls[c2].tok = calls[c].tok))
    /\ [][\A c \in Calls :
            (calls[c].op = "release" /\ calls[c].pc = "settled" /\ calls'[c].pc = "done"
                /\ calls[c].res.k = "raise") => items' = items]_vars

\* acquire(), a release() whose Release raised E1, a try() refused with
\* BrokerLockError, and a release() that invoked the same Release again.
C19_Witness ==
    \E h \in Slots :
        /\ Len(calls) = 4
        /\ \A c \in Calls : calls[c].h = h
        /\ Succeeded(1)
        /\ ReleaseRaised(2) /\ calls[2].ret = Throw("E1")
        /\ calls[3].op = "try" /\ calls[3].ret = Throw(BrokerLockError)
        /\ calls[4].op = "release" /\ calls[4].tok = calls[2].tok
        /\ toks[calls[2].tok].invoked = 2

\* The step is message.failed(err) on message m, and message.delay(seconds) on m.
FailedStep(m) == msgs'[m].nfailed # msgs[m].nfailed

DelayStep(m) == msgs'[m].delayed # msgs[m].delayed

\* C20: a message.failed(err) step sets state to 'failed' and error to err and
\* changes no other field of the message (tries and delayed stay) and no other
\* message; a message.delay(seconds) step sets delayed to seconds and changes nothing
\* else (state, error and tries stay); and no step of the callback, of these methods
\* or of the wrapper changes the tries or, but for delay(), the delayed of a message.
C20_MutatorsFrame ==
    [][\A m \in Msgs :
        /\ msgs'[m].tries = msgs[m].tries
        /\ FailedStep(m) =>
                \E e \in CallbackErrors :
                    msgs' = [msgs EXCEPT ![m].state = "failed", ![m].error = e,
                                         ![m].nfailed = 1]
        /\ DelayStep(m) =>
                \E seconds \in DelaySeconds :
                    msgs' = [msgs EXCEPT ![m].delayed = seconds]
        /\ msgs'[m].pc # msgs[m].pc => msgs'[m].delayed = msgs[m].delayed]_vars

\* The second message delivered (tries 1) had failed("X2") and delay(5) called on it
\* while still pending in its callback: state 'failed', error X2, delayed 5, tries 1.
C20_Witness ==
    /\ Len(msgs) = 2
    /\ msgs[2].pc = "callback"
    /\ msgs[2].nfailed = 1 /\ msgs[2].state = "failed" /\ msgs[2].error = "X2"
    /\ msgs[2].delayed = 5
    /\ msgs[2].tries = 1

====
